---- MODULE Spec2Model ----
(***************************************************************************)
(* The ownership-scoped note store of src/app/api/notes/route.ts: the four *)
(* route handlers GET, POST, PATCH and DELETE over the MongoDB collection  *)
(* "notes".  PATCH and DELETE are two database operations each (findOne,   *)
(* then updateOne / deleteOne), so they are two steps that interleave with *)
(* the steps of other requests.                                            *)
(*                                                                         *)
(* The scan ingestion pipeline of the client page (src/unnamed/part_003):  *)
(* handleScanFile with fileToBase64, renderPdfToImage and runOcrOnImage,   *)
(* and saveScanNote.  Every invocation of an async function is a job whose *)
(* position is the await it is suspended at; each resolution or rejection  *)
(* of an awaited promise is one step, and the steps of the jobs in flight  *)
(* interleave with each other and with the user's input.                   *)
(***************************************************************************)
EXTENDS Integers, Sequences, FiniteSets, TLC

VARIABLES
    notes,      \* the collection "notes": ObjectId -> document
    nextId,     \* the next ObjectId insertOne generates (never reused)
    now,        \* the server clock read by new Date()
    pending,    \* PATCH/DELETE requests between their findOne and their write
    last,       \* what the latest handler step did and answered
    created,    \* history: per stored note, its creator and draft, and whether
                \* a PATCH wrote to it since
    unlisted,   \* history: the ObjectId of the latest created note while it is
                \* stored and its creator has not listed since (0: none)
    deleted,    \* history: the ObjectIds a DELETE answered success for
    scanTitle,  \* useState: the title typed for the scan
    scanFile,   \* useState: the selected File, or null
    scanPreview, \* useState: the data URL shown as preview, or null
    ocrText,    \* useState: the transcript shown in the textarea
    ocrProgress, \* useState: the published progress percentage
    ocrBusy,    \* useState: the busy flag of the ingestion
    savingScan, \* useState: a saveScanNote call is running
    jobs,       \* the handleScanFile invocations, in the order they started
    save,       \* the saveScanNote invocation: its position and what it holds
    act,        \* what the latest step of the page was, and the job it belongs to
    doctors,    \* the collection "doctors", in insertion order
    registering, \* register requests between their findOne and their insertOne
    reg         \* what the latest step of a register request did and answered

storeVars == <<notes, nextId, now, pending, last, created, unlisted, deleted>>

scanVars == <<scanTitle, scanFile, scanPreview, ocrText, ocrProgress, ocrBusy,
              savingScan>>

clientVars == <<scanVars, jobs, save, act>>

regVars == <<doctors, registering, reg>>

vars == <<storeVars, clientVars, regVars>>

(***************************************************************************)
(* Bounds of the model.                                                    *)
(***************************************************************************)
MaxNotes == 2       \* ObjectIds ever generated
MaxInFlight == 2    \* PATCH/DELETE requests suspended between their two steps
MaxFieldNotes == 1  \* ObjectIds ever generated under SpecFields
MaxClock == 2       \* instants the server clock passes through under SpecOrder
MaxOrderNotes == 2  \* ObjectIds ever generated under SpecOrder
MaxOrderInFlight == 1 \* suspended PATCH/DELETE requests under SpecOrder
MaxJobs == 2        \* files selected (handleScanFile invocations)
MaxSaveJobs == 1    \* files selected under SpecSave
MaxSaveNotes == 1   \* ObjectIds ever generated under SpecSave

(***************************************************************************)
(* JavaScript values.                                                      *)
(***************************************************************************)
Undefined == "<undefined>"      \* an absent property / absent session email
NoDate == -1                    \* a document without the field updatedAt

Falsy_UndefinedOnly(v) == v = Undefined

\* !v for a string-or-undefined v
Falsy(v) == v \in {Undefined, ""}

\* v ?? d
Coalesce(v, d) == IF v = Undefined THEN d ELSE v

\* ObjectId.toString()
ObjectIdToString(oid) == "oid" \o ToString(oid)

\* the strings new ObjectId(id) accepts; any other string makes it throw
WellFormedIds == 1..(MaxNotes + 1)

IsObjectIdString(id) == \E oid \in WellFormedIds : ObjectIdToString(oid) = id

\* new ObjectId(id), for a string it accepts
ParseObjectId(id) == CHOOSE oid \in WellFormedIds : ObjectIdToString(oid) = id

\* new Date(t).toISOString()
ToISOString(t) == "T" \o ToString(t)

(***************************************************************************)
(* Responses.                                                              *)
(***************************************************************************)
Unauthorized == [status |-> 401, error |-> "Unauthorized"]
MissingFields == [status |-> 400, error |-> "Missing required fields."]
MissingNoteId == [status |-> 400, error |-> "Missing note ID"]
NotFoundOrForbidden == [status |-> 404, error |-> "Note not found or unauthorized"]
\* new ObjectId(id) threw: the handler has no catch, the framework answers 500
ServerError == [status |-> 500, error |-> "Internal Server Error"]
Success == [status |-> 200, error |-> ""]
\* the handler is suspended on its write: no response yet
Suspended == [status |-> 0, error |-> ""]

NoBody == [id |-> Undefined, title |-> Undefined, source |-> Undefined,
           contentHtml |-> Undefined, ocrText |-> Undefined,
           fileUrl |-> Undefined, fileName |-> Undefined,
           fileType |-> Undefined, filePublicId |-> Undefined]

\* the record of one handler step
Step(op, part, caller, body, res, result) ==
    [op |-> op, part |-> part, caller |-> caller, body |-> body,
     status |-> res.status, error |-> res.error, result |-> result]

(***************************************************************************)
(* The collection.                                                         *)
(***************************************************************************)
FindOne_ById(store, oid, doctorId) ==
    IF oid \in DOMAIN store THEN {oid} ELSE {}

\* findOne({ _id, doctorId })
FindOne(store, oid, doctorId) ==
    IF oid \in DOMAIN store /\ store[oid].doctorId = doctorId
    THEN {oid} ELSE {}

Find_AnyOwner(store, doctorId) == DOMAIN store

\* find({ doctorId })
Find(store, doctorId) == {oid \in DOMAIN store : store[oid].doctorId = doctorId}

SortByCreatedAtDesc_Natural(store, S) ==
    {s \in [1..Cardinality(S) -> S] : \A i, j \in 1..Cardinality(S) : i < j => s[i] < s[j]}

\* .sort({ createdAt: -1 }).toArray(): the order of equal keys is not fixed
SortByCreatedAtDesc(store, S) ==
    {s \in [1..Cardinality(S) -> S] :
        /\ \A i, j \in 1..Cardinality(S) : i # j => s[i] # s[j]
        /\ \A i, j \in 1..Cardinality(S) :
              i < j => store[s[i]].createdAt >= store[s[j]].createdAt}

\* notes.map(note => ({...note, _id: note._id.toString(), createdAt: ...}))
Serialize(oid, note) ==
    [_id |-> ObjectIdToString(oid),
     doctorId |-> note.doctorId,
     title |-> note.title,
     source |-> note.source,
     contentHtml |-> note.contentHtml,
     ocrText |-> note.ocrText,
     fileUrl |-> note.fileUrl,
     fileName |-> note.fileName,
     fileType |-> note.fileType,
     filePublicId |-> note.filePublicId,
     createdAt |-> ToISOString(note.createdAt),
     updatedAt |-> IF note.updatedAt = NoDate THEN Undefined
                   ELSE ToISOString(note.updatedAt)]

NewNote_DropsContent(caller, body, t) ==
    [doctorId |-> caller,
     title |-> body.title,
     source |-> body.source,
     contentHtml |-> "",
     ocrText |-> Coalesce(body.ocrText, ""),
     fileUrl |-> Coalesce(body.fileUrl, ""),
     fileName |-> Coalesce(body.fileName, ""),
     fileType |-> Coalesce(body.fileType, ""),
     filePublicId |-> Coalesce(body.filePublicId, ""),
     createdAt |-> t,
     updatedAt |-> NoDate]

\* the document insertOne stores
NewNote(caller, body, t) ==
    [doctorId |-> caller,
     title |-> body.title,
     source |-> body.source,
     contentHtml |-> Coalesce(body.contentHtml, ""),
     ocrText |-> Coalesce(body.ocrText, ""),
     fileUrl |-> Coalesce(body.fileUrl, ""),
     fileName |-> Coalesce(body.fileName, ""),
     fileType |-> Coalesce(body.fileType, ""),
     filePublicId |-> Coalesce(body.filePublicId, ""),
     createdAt |-> t,
     updatedAt |-> NoDate]

UpdateData_SetsCreatedAt(existingNote, body, t) ==
    ("title" :> body.title) @@ ("updatedAt" :> t) @@ ("createdAt" :> t) @@
    (IF existingNote.source = "manual"
     THEN ("contentHtml" :> Coalesce(body.contentHtml, ""))
     ELSE ("ocrText" :> Coalesce(body.ocrText, "")))

UpdateData_KeepsTitle(existingNote, body, t) ==
    ("title" :> existingNote.title) @@ ("updatedAt" :> t) @@
    (IF existingNote.source = "manual"
     THEN ("contentHtml" :> Coalesce(body.contentHtml, ""))
     ELSE ("ocrText" :> Coalesce(body.ocrText, "")))

UpdateData_BothFields(existingNote, body, t) ==
    ("title" :> body.title) @@ ("updatedAt" :> t) @@
    ("contentHtml" :> Coalesce(body.contentHtml, existingNote.contentHtml)) @@
    ("ocrText" :> Coalesce(body.ocrText, existingNote.ocrText))

\* updateData of PATCH
UpdateData(existingNote, body, t) ==
    ("title" :> body.title) @@ ("updatedAt" :> t) @@
    (IF existingNote.source = "manual"
     THEN ("contentHtml" :> Coalesce(body.contentHtml, ""))
     ELSE ("ocrText" :> Coalesce(body.ocrText, "")))

\* DELETE has nothing to $set
NoUpdate == [f \in {} |-> ""]

UpdateOne_Upsert(store, oid, updateData) ==
    [o \in DOMAIN store \cup {oid} |->
        [f \in {"doctorId", "title", "source", "contentHtml", "ocrText", "fileUrl",
                 "fileName", "fileType", "filePublicId", "createdAt", "updatedAt"} |->
            IF f \in DOMAIN updateData THEN updateData[f]
            ELSE IF o \in DOMAIN store THEN store[o][f] ELSE Undefined]]

\* updateOne({ _id }, { $set: updateData }): no upsert
UpdateOne(store, oid, updateData) ==
    IF oid \in DOMAIN store
    THEN [store EXCEPT ![oid] =
            [f \in DOMAIN @ |-> IF f \in DOMAIN updateData
                                THEN updateData[f] ELSE @[f]]]
    ELSE store

DeleteOne_Noop(store, oid) == store

DeleteOne_OfOwner(store, oid) ==
    IF oid \in DOMAIN store
    THEN [o \in {n \in DOMAIN store : store[n].doctorId # store[oid].doctorId} |->
            store[o]]
    ELSE store

\* deleteOne({ _id })
DeleteOne(store, oid) == [o \in DOMAIN store \ {oid} |-> store[o]]

(***************************************************************************)
(* History kept for the properties (not program state).                    *)
(***************************************************************************)
HistCreate(h, oid, caller, body) ==
    [o \in DOMAIN h \cup {oid} |->
        IF o = oid
        THEN [caller |-> caller, draft |-> body, updated |-> FALSE]
        ELSE h[o]]

HistUpdated(h, S) ==
    [o \in DOMAIN h |-> IF o \in S THEN [h[o] EXCEPT !.updated = TRUE] ELSE h[o]]

HistDelete(h, oid) == [o \in DOMAIN h \ {oid} |-> h[o]]

(***************************************************************************)
(* Values of the client page.                                              *)
(***************************************************************************)
Null == "<null>"

\* a File: its name and its declared media type (file.type)
File(name, type) == [name |-> name, type |-> type]

NoFile == File(Null, Null)

\* A text is the sequence of its pieces: a whitespace character, or a run of
\* characters without whitespace.
IsWhitespace(c) == c \in {" ", "\n", "\t"}

RECURSIVE TrimStart(_)
TrimStart(text) ==
    IF text # <<>> /\ IsWhitespace(Head(text)) THEN TrimStart(Tail(text)) ELSE text

RECURSIVE TrimEnd(_)
TrimEnd(text) ==
    IF text # <<>> /\ IsWhitespace(text[Len(text)])
    THEN TrimEnd(SubSeq(text, 1, Len(text) - 1))
    ELSE text

Trim_StartOnly(text) == TrimStart(text)

\* String.prototype.trim
Trim(text) == TrimEnd(TrimStart(text))

\* the string a text is, as JSON.stringify sends it
RECURSIVE ToStr(_)
ToStr(text) == IF text = <<>> THEN "" ELSE Head(text) \o ToStr(Tail(text))

Fallback == <<"Unable", " ", "to", " ", "extract", " ", "text.", " ", "Please",
              " ", "try", " ", "a", " ", "clearer", " ", "scan.">>

\* reader.readAsDataURL(file): the file's bytes stand behind its name
DataUrl(file) == "data:" \o file.type \o ";base64," \o file.name

\* canvas.toDataURL("image/png") of page 1 of the PDF
RasterOf(file) == [kind |-> "dataURL", type |-> "image/png", name |-> file.name]

\* the File itself as OCR source
SourceOf(file) == [kind |-> "File", type |-> file.type, name |-> file.name]

\* message.progress is a fraction of 1, kept in thousandths;
\* Math.round(message.progress * 100) rounds halves up
RoundPercent(permille) == (permille + 5) \div 10

NewJob(file) ==
    [file |-> file, pc |-> "fileToBase64", ocrSource |-> SourceOf(file),
     worker |-> "none", emitted |-> 0, text |-> <<>>, outcome |-> "pending"]

NoSave ==
    [pc |-> "idle", title |-> "", file |-> NoFile, ocrText |-> <<>>,
     url |-> Undefined, publicId |-> Undefined, status |-> 0]

\* status: the stage a logger message reports, "" in every other step
Act(name, job) == [name |-> name, job |-> job, status |-> ""]

(***************************************************************************)
(* Init: an empty collection, and the page as first rendered.              *)
(***************************************************************************)
Init ==
    /\ notes = [o \in {} |-> NoBody]
    /\ nextId = 1
    /\ now = 0
    /\ pending = {}
    /\ last = Step("INIT", "handler", Undefined, NoBody, Suspended, <<>>)
    /\ created = [o \in {} |-> NoBody]
    /\ unlisted = 0
    /\ deleted = {}
    /\ scanTitle = ""
    /\ scanFile = NoFile
    /\ scanPreview = Null
    /\ ocrText = <<>>
    /\ ocrProgress = 0
    /\ ocrBusy = FALSE
    /\ savingScan = FALSE
    /\ jobs = <<>>
    /\ save = NoSave
    /\ act = Act("render", 0)
    /\ doctors = <<>>
    /\ registering = {}
    /\ reg = [part |-> "init", body |-> NoBody, status |-> 0, error |-> "", id |-> ""]

(***************************************************************************)
(* GET                                                                     *)
(***************************************************************************)
GET(caller) ==
    /\ IF Falsy(caller)
       THEN /\ last' = Step("GET", "handler", caller, NoBody, Unauthorized, <<>>)
            /\ unlisted' = unlisted
       ELSE \E s \in SortByCreatedAtDesc(notes, Find(notes, caller)) :
            /\ last' = Step("GET", "handler", caller, NoBody, Success,
                            [i \in DOMAIN s |-> Serialize(s[i], notes[s[i]])])
            /\ unlisted' = IF unlisted \in Find(notes, caller) THEN 0 ELSE unlisted
    /\ UNCHANGED <<notes, nextId, now, pending, created, deleted>>

(***************************************************************************)
(* POST                                                                    *)
(***************************************************************************)
POST(caller, body) ==
    IF Falsy(caller)
    THEN /\ last' = Step("POST", "handler", caller, body, Unauthorized, <<>>)
         /\ UNCHANGED <<notes, nextId, now, pending, created, unlisted, deleted>>
    ELSE IF Falsy(body.title) \/ Falsy(body.source)
    THEN /\ last' = Step("POST", "handler", caller, body, MissingFields, <<>>)
         /\ UNCHANGED <<notes, nextId, now, pending, created, unlisted, deleted>>
    ELSE /\ nextId <= MaxNotes
         /\ notes' = [o \in DOMAIN notes \cup {nextId} |->
                        IF o = nextId THEN NewNote(caller, body, now)
                        ELSE notes[o]]
         /\ nextId' = nextId + 1
         /\ last' = Step("POST", "handler", caller, body, Success,
                         <<ObjectIdToString(nextId)>>)
         /\ created' = HistCreate(created, nextId, caller, body)
         /\ unlisted' = nextId
         /\ UNCHANGED <<now, pending, deleted>>

(***************************************************************************)
(* PATCH: the handler up to and including findOne, then the updateOne.     *)
(***************************************************************************)
PATCHLookup_Forbidden(store, caller, body) ==
    IF Falsy(caller) THEN Unauthorized
    ELSE IF Falsy(body.id) \/ Falsy(body.title) THEN MissingFields
    ELSE IF ~IsObjectIdString(body.id) THEN ServerError
    ELSE IF ParseObjectId(body.id) \notin DOMAIN store THEN NotFoundOrForbidden
    ELSE IF store[ParseObjectId(body.id)].doctorId # caller
    THEN [status |-> 403, error |-> "Forbidden"]
    ELSE Suspended

PATCHLookup_ValidateFirst(store, caller, body) ==
    IF Falsy(body.id) \/ Falsy(body.title) THEN MissingFields
    ELSE IF Falsy(caller) THEN Unauthorized
    ELSE IF ~IsObjectIdString(body.id) THEN ServerError
    ELSE IF FindOne(store, ParseObjectId(body.id), caller) = {}
    THEN NotFoundOrForbidden
    ELSE Suspended

\* what the handler answers before it writes; Suspended when it goes on to
\* updateOne
PATCHLookup(store, caller, body) ==
    IF Falsy(caller) THEN Unauthorized
    ELSE IF Falsy(body.id) \/ Falsy(body.title) THEN MissingFields
    ELSE IF ~IsObjectIdString(body.id) THEN ServerError
    ELSE IF FindOne(store, ParseObjectId(body.id), caller) = {}
    THEN NotFoundOrForbidden
    ELSE Suspended

PATCH(caller, body) ==
    LET res == PATCHLookup(notes, caller, body)
    IN  IF res # Suspended
        THEN /\ last' = Step("PATCH", "handler", caller, body, res, <<>>)
             /\ UNCHANGED <<notes, nextId, now, pending, created, unlisted, deleted>>
        ELSE LET existingNote == notes[ParseObjectId(body.id)]
                 req == [op |-> "PATCH", caller |-> caller, body |-> body,
                         updateData |-> UpdateData(existingNote, body, now)]
             IN  /\ Cardinality(pending) < MaxInFlight
                 /\ req \notin pending
                 /\ pending' = pending \cup {req}
                 /\ last' = Step("PATCH", "handler", caller, body, res, <<>>)
                 /\ UNCHANGED <<notes, nextId, now, created, unlisted, deleted>>

PATCHWrite(req) ==
    /\ req \in pending
    /\ req.op = "PATCH"
    /\ LET oid == ParseObjectId(req.body.id)
       IN  /\ notes' = UpdateOne(notes, oid, req.updateData)
           /\ created' = HistUpdated(created, {oid})
    /\ pending' = pending \ {req}
    /\ last' = Step("PATCH", "write", req.caller, req.body, Success, <<>>)
    /\ UNCHANGED <<nextId, now, unlisted, deleted>>

(***************************************************************************)
(* DELETE: the handler up to and including findOne, then the deleteOne.    *)
(***************************************************************************)
\* what the handler answers before it writes; Suspended when it goes on to
\* deleteOne
DELETELookup(store, caller, body) ==
    IF Falsy(caller) THEN Unauthorized
    ELSE IF Falsy(body.id) THEN MissingNoteId
    ELSE IF ~IsObjectIdString(body.id) THEN ServerError
    ELSE IF FindOne(store, ParseObjectId(body.id), caller) = {}
    THEN NotFoundOrForbidden
    ELSE Suspended

DELETE(caller, body) ==
    LET res == DELETELookup(notes, caller, body)
    IN  IF res # Suspended
        THEN /\ last' = Step("DELETE", "handler", caller, body, res, <<>>)
             /\ UNCHANGED <<notes, nextId, now, pending, created, unlisted, deleted>>
        ELSE LET req == [op |-> "DELETE", caller |-> caller, body |-> body,
                         updateData |-> NoUpdate]
             IN  /\ Cardinality(pending) < MaxInFlight
                 /\ req \notin pending
                 /\ pending' = pending \cup {req}
                 /\ last' = Step("DELETE", "handler", caller, body, res, <<>>)
                 /\ UNCHANGED <<notes, nextId, now, created, unlisted, deleted>>

DELETEWrite(req) ==
    /\ req \in pending
    /\ req.op = "DELETE"
    /\ LET oid == ParseObjectId(req.body.id)
       IN  /\ notes' = DeleteOne(notes, oid)
           /\ created' = HistDelete(created, oid)
           /\ deleted' = deleted \cup {oid}
           /\ unlisted' = IF unlisted = oid THEN 0 ELSE unlisted
    /\ pending' = pending \ {req}
    /\ last' = Step("DELETE", "write", req.caller, req.body, Success, <<>>)
    /\ UNCHANGED <<nextId, now>>

(***************************************************************************)
(* The server clock: new Date() reads a later instant as time passes.      *)
(***************************************************************************)
Tick ==
    /\ now < MaxClock
    /\ now' = now + 1
    /\ last' = Step("TICK", "handler", Undefined, NoBody, Suspended, <<>>)
    /\ UNCHANGED <<notes, nextId, pending, created, unlisted, deleted>>

(***************************************************************************)
(* handleScanFile: from the file input's onChange to the end of its        *)
(* finally block.  Job j is the j-th invocation.                           *)
(***************************************************************************)
\* the synchronous part before the first await
handleScanFile(file) ==
    /\ Len(jobs) < MaxJobs
    /\ scanFile' = file
    /\ scanPreview' = Null
    /\ ocrText' = <<>>
    /\ ocrProgress' = 0
    /\ ocrBusy' = TRUE
    /\ jobs' = Append(jobs, NewJob(file))
    /\ act' = Act("handleScanFile", Len(jobs) + 1)
    /\ UNCHANGED <<scanTitle, savingScan, save, storeVars>>

fileToBase64Resolved_NoRaster(j) ==
    /\ jobs[j].pc = "fileToBase64"
    /\ scanPreview' = DataUrl(jobs[j].file)
    /\ jobs' = [jobs EXCEPT ![j].pc = "createWorker"]
    /\ act' = Act("setScanPreview", j)
    /\ UNCHANGED <<scanTitle, scanFile, ocrText, ocrProgress, ocrBusy,
                   savingScan, save, storeVars>>

\* await fileToBase64(file) resolves: the preview is set, and a PDF goes on to
\* renderPdfToImage, any other file to runOcrOnImage
fileToBase64Resolved(j) ==
    /\ jobs[j].pc = "fileToBase64"
    /\ scanPreview' = DataUrl(jobs[j].file)
    /\ jobs' = [jobs EXCEPT ![j].pc =
                   IF jobs[j].file.type = "application/pdf"
                   THEN "renderPdfToImage"
                   ELSE "createWorker"]
    /\ act' = Act("setScanPreview", j)
    /\ UNCHANGED <<scanTitle, scanFile, ocrText, ocrProgress, ocrBusy,
                   savingScan, save, storeVars>>

\* await renderPdfToImage(file) resolves with the PNG of page 1
renderPdfToImageResolved(j) ==
    /\ jobs[j].pc = "renderPdfToImage"
    /\ jobs' = [jobs EXCEPT ![j].pc = "createWorker",
                            ![j].ocrSource = RasterOf(jobs[j].file)]
    /\ act' = Act("renderPdfToImage", j)
    /\ UNCHANGED <<scanVars, save, storeVars>>

\* runOcrOnImage: await import("tesseract.js") and await createWorker(...)
\* resolve, the worker is running
createWorkerResolved(j) ==
    /\ jobs[j].pc = "createWorker"
    /\ jobs' = [jobs EXCEPT ![j].pc = "recognize", ![j].worker = "running"]
    /\ act' = Act("createWorker", j)
    /\ UNCHANGED <<scanVars, save, storeVars>>

\* what the worker of job j may report: any stage with any progress while it
\* is created or recognizes, but "recognizing text" only while it recognizes,
\* with a progress that does not decrease
Reports(j, message) ==
    /\ jobs[j].pc \in {"createWorker", "recognize"}
    /\ message.status = "recognizing text"
          => jobs[j].pc = "recognize" /\ message.progress >= jobs[j].emitted

logger_AnyStatus(j, message) ==
    /\ Reports(j, message)
    /\ ocrProgress' = IF message.progress # 0
                      THEN RoundPercent(message.progress)
                      ELSE ocrProgress
    /\ jobs' = [jobs EXCEPT ![j].emitted =
                   IF message.status = "recognizing text" THEN message.progress ELSE @]
    /\ act' = [Act("logger", j) EXCEPT !.status = message.status]
    /\ UNCHANGED <<scanTitle, scanFile, scanPreview, ocrText, ocrBusy,
                   savingScan, save, storeVars>>

\* the logger callback of job j's worker
logger(j, message) ==
    /\ Reports(j, message)
    /\ ocrProgress' = IF message.status = "recognizing text" /\ message.progress # 0
                      THEN RoundPercent(message.progress)
                      ELSE ocrProgress
    /\ jobs' = [jobs EXCEPT ![j].emitted =
                   IF message.status = "recognizing text" THEN message.progress ELSE @]
    /\ act' = [Act("logger", j) EXCEPT !.status = message.status]
    /\ UNCHANGED <<scanTitle, scanFile, scanPreview, ocrText, ocrBusy,
                   savingScan, save, storeVars>>

\* await worker.recognize(image) resolves with result.data.text
recognizeResolved(j, text) ==
    /\ jobs[j].pc = "recognize"
    /\ jobs' = [jobs EXCEPT ![j].pc = "terminate", ![j].text = text,
                            ![j].emitted = 0]
    /\ act' = Act("recognize", j)
    /\ UNCHANGED <<scanVars, save, storeVars>>

\* await worker.terminate() resolves; runOcrOnImage returns the text,
\* handleScanFile sets text.trim() and runs its finally block
terminateResolved(j) ==
    /\ jobs[j].pc = "terminate"
    /\ ocrText' = Trim(jobs[j].text)
    /\ ocrBusy' = FALSE
    /\ jobs' = [jobs EXCEPT ![j].pc = "returned", ![j].worker = "terminated",
                            ![j].text = <<>>, ![j].outcome = "done"]
    /\ act' = Act("setOcrText", j)
    /\ UNCHANGED <<scanTitle, scanFile, scanPreview, ocrProgress, savingScan,
                   save, storeVars>>

Awaiting == {"fileToBase64", "renderPdfToImage", "createWorker", "recognize",
             "terminate"}

catchError_RawError(j) ==
    /\ jobs[j].pc \in Awaiting
    /\ ocrText' = <<"Error:", " ", jobs[j].pc>>
    /\ ocrBusy' = FALSE
    /\ jobs' = [jobs EXCEPT ![j].pc = "threw", ![j].text = <<>>,
                            ![j].emitted = 0, ![j].outcome = "failed"]
    /\ act' = Act("catch", j)
    /\ UNCHANGED <<scanTitle, scanFile, scanPreview, ocrProgress, savingScan,
                   save, storeVars>>

catchError_Stuck(j) ==
    /\ jobs[j].pc \in Awaiting
    /\ jobs' = [jobs EXCEPT ![j].pc = "rejected"]
    /\ act' = Act("catch", j)
    /\ UNCHANGED <<scanVars, save, storeVars>>

\* the promise job j awaits rejects (or, in renderPdfToImage, the canvas has
\* no context): the catch block sets the fallback text and the finally block
\* clears the busy flag.  A worker that was running is not terminated.
catchError(j) ==
    /\ jobs[j].pc \in Awaiting
    /\ ocrText' = Fallback
    /\ ocrBusy' = FALSE
    /\ jobs' = [jobs EXCEPT ![j].pc = "returned", ![j].text = <<>>,
                            ![j].emitted = 0, ![j].outcome = "failed"]
    /\ act' = Act("catch", j)
    /\ UNCHANGED <<scanTitle, scanFile, scanPreview, ocrProgress, savingScan,
                   save, storeVars>>

(***************************************************************************)
(* The user's input in the scan form.                                      *)
(***************************************************************************)
\* onChange of the title input
setScanTitle(title) ==
    /\ title # scanTitle
    /\ scanTitle' = title
    /\ act' = Act("setScanTitle", 0)
    /\ UNCHANGED <<scanFile, scanPreview, ocrText, ocrProgress, ocrBusy,
                   savingScan, jobs, save, storeVars>>

\* onChange of the transcript textarea, which is never disabled for a
\* signed-in user
setOcrText(text) ==
    /\ text # ocrText
    /\ ocrText' = text
    /\ act' = Act("textarea", 0)
    /\ UNCHANGED <<scanTitle, scanFile, scanPreview, ocrProgress, ocrBusy,
                   savingScan, jobs, save, storeVars>>

(***************************************************************************)
(* saveScanNote: upload of the file, POST of the note, reset of the form,  *)
(* loadNotes.  The save button is disabled while savingScan.               *)
(***************************************************************************)
\* the click: the guard of line 341, setSavingScan(true), and the upload
\* request is sent with what the form holds at that moment
saveScanNote ==
    /\ ~savingScan
    /\ scanFile # NoFile
    /\ scanTitle # ""
    /\ savingScan' = TRUE
    /\ save' = [NoSave EXCEPT !.pc = "upload", !.title = scanTitle,
                              !.file = scanFile, !.ocrText = ocrText]
    /\ act' = Act("saveScanNote", 0)
    /\ UNCHANGED <<scanTitle, scanFile, scanPreview, ocrText, ocrProgress,
                   ocrBusy, jobs, storeVars>>

\* The route handler POST of /api/upload, for the session it finds, the file
\* of the form data and the outcome of the Cloudinary upload_stream callback
\* ("result" or "error").  The public id is the folder of the caller, the
\* time and the file name (the names drawn hold no character that the
\* replace of line 39 rewrites).
UploadPOST(caller, file, cloudinary, t) ==
    LET publicId == "lief_notes/" \o caller \o "/" \o ToString(t) \o "_" \o file.name
    IN  IF Falsy(caller)
        THEN [status |-> 401, ok |-> FALSE, url |-> Undefined, publicId |-> Undefined]
        ELSE IF file = NoFile
        THEN [status |-> 400, ok |-> FALSE, url |-> Undefined, publicId |-> Undefined]
        ELSE IF cloudinary = "error"
        THEN [status |-> 500, ok |-> FALSE, url |-> Undefined, publicId |-> Undefined]
        ELSE [status |-> 200, ok |-> TRUE,
              url |-> "https://res.cloudinary.com/" \o publicId,
              publicId |-> publicId]

uploadSettled_IgnoresFailure(response) ==
    /\ save.pc = "upload"
    /\ save' = [save EXCEPT !.pc = "post", !.url = response.url,
                            !.publicId = response.publicId]
    /\ savingScan' = savingScan
    /\ act' = Act("upload", 0)
    /\ UNCHANGED <<scanTitle, scanFile, scanPreview, ocrText, ocrProgress,
                   ocrBusy, jobs, storeVars>>

\* await fetch("/api/upload") settles: with { url, publicId } when the
\* response is ok; otherwise saveScanNote throws and only its finally runs
uploadSettled(response) ==
    /\ save.pc = "upload"
    /\ IF response.ok
       THEN /\ save' = [save EXCEPT !.pc = "post", !.url = response.url,
                                    !.publicId = response.publicId]
            /\ savingScan' = savingScan
       ELSE /\ save' = [save EXCEPT !.pc = "threw"]
            /\ savingScan' = FALSE
    /\ act' = Act("upload", 0)
    /\ UNCHANGED <<scanTitle, scanFile, scanPreview, ocrText, ocrProgress,
                   ocrBusy, jobs, storeVars>>

\* the body of the POST that saveScanNote sends
ScanNoteBody(s) ==
    [NoBody EXCEPT !.title = s.title, !.source = "scan",
                   !.ocrText = ToStr(s.ocrText), !.fileUrl = s.url,
                   !.filePublicId = s.publicId, !.fileName = s.file.name,
                   !.fileType = s.file.type]

\* the route handler POST answers the request, for the session it finds
postScanNote(caller) ==
    /\ save.pc = "post"
    /\ POST(caller, ScanNoteBody(save))
    /\ save' = [save EXCEPT !.pc = "posted", !.status = last'.status]
    /\ act' = Act("POST /api/notes", 0)
    /\ UNCHANGED <<scanVars, jobs>>

\* await fetch("/api/notes") resolves, whatever the status of the response:
\* the form is reset and loadNotes is called
resetScan ==
    /\ save.pc = "posted"
    /\ scanTitle' = ""
    /\ scanFile' = NoFile
    /\ scanPreview' = Null
    /\ ocrText' = <<>>
    /\ ocrProgress' = 0
    /\ save' = [save EXCEPT !.pc = "loadNotes"]
    /\ act' = Act("reset", 0)
    /\ UNCHANGED <<ocrBusy, savingScan, jobs, storeVars>>

\* await loadNotes() settles: GET /api/notes was answered, and the finally
\* block runs setSavingScan(false)
loadNotesSettled(caller) ==
    /\ save.pc = "loadNotes"
    /\ GET(caller)
    /\ savingScan' = FALSE
    /\ save' = [save EXCEPT !.pc = "returned"]
    /\ act' = Act("loadNotes", 0)
    /\ UNCHANGED <<scanTitle, scanFile, scanPreview, ocrText, ocrProgress,
                   ocrBusy, jobs>>

(***************************************************************************)
(* The requests the model draws.                                           *)
(***************************************************************************)
Authenticated == {"a@x", "b@x"}

\* the session email: absent when the request carries no session
Callers == {Undefined} \cup Authenticated

\* request ids: absent, malformed, and every well-formed ObjectId string
Ids == {Undefined, "zz"} \cup {ObjectIdToString(oid) : oid \in WellFormedIds}

\* Spec: ownership, validation and lifecycle, with every caller and request id
Drafts ==
    {[NoBody EXCEPT !.title = "t1", !.source = "manual"],
     [NoBody EXCEPT !.source = "manual"],
     [NoBody EXCEPT !.title = "", !.source = "manual"],
     [NoBody EXCEPT !.title = "t1"],
     [NoBody EXCEPT !.title = "t1", !.source = ""]}

Patches ==
    {[NoBody EXCEPT !.id = i, !.title = "t2"] : i \in Ids}
    \cup {[NoBody EXCEPT !.id = ObjectIdToString(1)]}

Deletes == {[NoBody EXCEPT !.id = i] : i \in Ids}

\* <<session email, body>>: every body with a session, a valid and an invalid
\* body without one
PostRequests ==
    (Authenticated \X Drafts)
    \cup ({Undefined} \X {[NoBody EXCEPT !.title = "t1", !.source = "manual"],
                          [NoBody EXCEPT !.source = "manual"]})

PatchRequests ==
    (Authenticated \X Patches)
    \cup ({Undefined} \X {[NoBody EXCEPT !.id = ObjectIdToString(1), !.title = "t2"],
                          [NoBody EXCEPT !.id = ObjectIdToString(1)]})

DeleteRequests ==
    (Authenticated \X Deletes)
    \cup ({Undefined} \X {[NoBody EXCEPT !.id = ObjectIdToString(1)], NoBody})

Next ==
    /\ \/ \E c \in Callers : GET(c)
       \/ \E r \in PostRequests : POST(r[1], r[2])
       \/ \E r \in PatchRequests : PATCH(r[1], r[2])
       \/ \E r \in pending : PATCHWrite(r)
       \/ \E r \in DeleteRequests : DELETE(r[1], r[2])
       \/ \E r \in pending : DELETEWrite(r)
    /\ UNCHANGED <<clientVars, regVars>>

Spec == Init /\ [][Next]_vars

\* SpecFields: the content fields, with every combination of supplied fields
FieldCallers == {"a@x"}

FieldIds == {ObjectIdToString(oid) : oid \in 1..MaxFieldNotes}

FieldDrafts ==
    {[NoBody EXCEPT !.title = "t1", !.source = s, !.contentHtml = h, !.ocrText = o] :
        s \in {"manual", "scan"}, h \in {Undefined, "c1"}, o \in {Undefined, "c1"}}

FieldPatches ==
    {[NoBody EXCEPT !.id = i, !.title = "t2", !.contentHtml = h, !.ocrText = o] :
        i \in FieldIds, h \in {Undefined, "c2"}, o \in {Undefined, "c2"}}

FieldDeletes == {[NoBody EXCEPT !.id = i] : i \in FieldIds}

NextFields ==
    /\ \/ \E c \in FieldCallers : GET(c)
       \/ \E c \in FieldCallers, b \in FieldDrafts :
             nextId <= MaxFieldNotes /\ POST(c, b)
       \/ \E c \in FieldCallers, b \in FieldPatches : PATCH(c, b)
       \/ \E r \in pending : PATCHWrite(r)
       \/ \E c \in FieldCallers, b \in FieldDeletes : DELETE(c, b)
       \/ \E r \in pending : DELETEWrite(r)
    /\ UNCHANGED <<clientVars, regVars>>

SpecFields == Init /\ [][NextFields]_vars

\* SpecOrder: the listing order, with notes created and updated at different
\* instants
OrderCallers == {"a@x"}

OrderIds == {ObjectIdToString(oid) : oid \in 1..MaxOrderNotes}

OrderDrafts == {[NoBody EXCEPT !.title = "t1", !.source = "manual"]}

OrderPatches == {[NoBody EXCEPT !.id = i, !.title = "t2"] : i \in OrderIds}

OrderDeletes == {[NoBody EXCEPT !.id = i] : i \in OrderIds}

NextOrder ==
    /\ \/ Tick
       \/ \E c \in OrderCallers : GET(c)
       \/ \E c \in OrderCallers, b \in OrderDrafts :
             nextId <= MaxOrderNotes /\ POST(c, b)
       \/ \E c \in OrderCallers, b \in OrderPatches :
             Cardinality(pending) < MaxOrderInFlight /\ PATCH(c, b)
       \/ \E r \in pending : PATCHWrite(r)
       \/ \E c \in OrderCallers, b \in OrderDeletes :
             Cardinality(pending) < MaxOrderInFlight /\ DELETE(c, b)
       \/ \E r \in pending : DELETEWrite(r)
    /\ UNCHANGED <<clientVars, regVars>>

SpecOrder == Init /\ [][NextOrder]_vars

\* SpecOrigin: the source tag, with every kind of value a create request can
\* put in body.source
OriginDrafts ==
    {[NoBody EXCEPT !.title = "t1", !.source = s, !.ocrText = o] :
        s \in {Undefined, "manual", "scan", "fax"}, o \in {Undefined, "c1"}}

NextOrigin ==
    /\ \/ \E c \in FieldCallers : GET(c)
       \/ \E c \in FieldCallers, b \in OriginDrafts :
             nextId <= MaxFieldNotes /\ POST(c, b)
       \/ \E c \in FieldCallers, b \in FieldPatches : PATCH(c, b)
       \/ \E r \in pending : PATCHWrite(r)
       \/ \E c \in FieldCallers, b \in FieldDeletes : DELETE(c, b)
       \/ \E r \in pending : DELETEWrite(r)
    /\ UNCHANGED <<clientVars, regVars>>

SpecOrigin == Init /\ [][NextOrigin]_vars

\* SpecAttach: the attachment fields, supplied or not, for both sources
AttachDrafts ==
    {[NoBody EXCEPT !.title = "t1", !.source = s, !.fileUrl = f[1],
                    !.filePublicId = f[2], !.fileName = f[3], !.fileType = f[4]] :
        s \in {"manual", "scan"},
        f \in {<<Undefined, Undefined, Undefined, Undefined>>,
               <<"https://res.cloudinary.com/p1", "p1", "a.png", "image/png">>}}

NextAttach ==
    /\ \/ \E c \in FieldCallers : GET(c)
       \/ \E c \in FieldCallers, b \in AttachDrafts :
             nextId <= MaxFieldNotes /\ POST(c, b)
       \/ \E c \in FieldCallers, b \in FieldPatches : PATCH(c, b)
       \/ \E r \in pending : PATCHWrite(r)
       \/ \E c \in FieldCallers, b \in FieldDeletes : DELETE(c, b)
       \/ \E r \in pending : DELETEWrite(r)
    /\ UNCHANGED <<clientVars, regVars>>

SpecAttach == Init /\ [][NextAttach]_vars

\* SpecJobs: the ingestion jobs of the files the user selects, and the edits
\* of the transcript
Files ==
    {File("a.png", "image/png"), File("b.pdf", "application/pdf"),
     File("c.txt", "text/plain")}

\* what the logger is called with: a stage and a progress in thousandths
Messages ==
    [status : {"loading tesseract core", "recognizing text"},
     progress : {0, 495, 1000}]

\* result.data.text
RecognizedTexts == {<<" ", "a", " ", "b", "\n">>, <<"\t">>}

EditedTexts == {<<"typed">>}

NextJobs ==
    /\ \/ \E file \in Files : handleScanFile(file)
       \/ \E j \in DOMAIN jobs : fileToBase64Resolved(j)
       \/ \E j \in DOMAIN jobs : renderPdfToImageResolved(j)
       \/ \E j \in DOMAIN jobs : createWorkerResolved(j)
       \/ \E j \in DOMAIN jobs, message \in Messages : logger(j, message)
       \/ \E j \in DOMAIN jobs, text \in RecognizedTexts : recognizeResolved(j, text)
       \/ \E j \in DOMAIN jobs : terminateResolved(j)
       \/ \E j \in DOMAIN jobs : catchError(j)
       \/ \E text \in EditedTexts : setOcrText(text)
    /\ UNCHANGED regVars

SpecJobs == Init /\ [][NextJobs]_vars

\* SpecSave: ingestion of one kind of file, and the save of the scan under a
\* session that may have expired by the time a request arrives
SaveFiles == {File("a.png", "image/png")}

SaveMessages == {[status |-> "recognizing text", progress |-> 495]}

SaveTexts == {<<" ", "ok", "\n">>}

ScanTitles == {"", "t1"}

Sessions == {"a@x", Undefined}

CloudinaryOutcomes == {"result", "error"}

\* what fetch("/api/upload") settles with: the answers of the route to the
\* file being saved
UploadResponses ==
    {UploadPOST(caller, save.file, cloudinary, now) :
        caller \in Sessions, cloudinary \in CloudinaryOutcomes}

NextSave ==
    /\ \/ \E file \in SaveFiles : Len(jobs) < MaxSaveJobs /\ handleScanFile(file)
       \/ \E j \in DOMAIN jobs : fileToBase64Resolved(j)
       \/ \E j \in DOMAIN jobs : createWorkerResolved(j)
       \/ \E j \in DOMAIN jobs, message \in SaveMessages : logger(j, message)
       \/ \E j \in DOMAIN jobs, text \in SaveTexts : recognizeResolved(j, text)
       \/ \E j \in DOMAIN jobs : terminateResolved(j)
       \/ \E j \in DOMAIN jobs : catchError(j)
       \/ \E title \in ScanTitles : setScanTitle(title)
       \/ \E text \in EditedTexts : setOcrText(text)
       \/ saveScanNote
       \/ \E response \in UploadResponses : uploadSettled(response)
       \/ \E caller \in Sessions : nextId <= MaxSaveNotes /\ postScanNote(caller)
       \/ resetScan
       \/ \E caller \in Sessions : loadNotesSettled(caller)
    /\ UNCHANGED regVars

SpecSave == Init /\ [][NextSave]_vars

\* SpecJobsFair: every promise a job awaits settles in the end.  The jobs of
\* an image and of a PDF, with one progress report and one recognized text.
FairFiles == {File("a.png", "image/png"), File("b.pdf", "application/pdf")}

FairMessages == {[status |-> "recognizing text", progress |-> 495]}

FairTexts == {<<" ", "ok", "\n">>}

\* a promise that job j awaits settles
FairJobStep(j) ==
    /\ \/ fileToBase64Resolved(j)
       \/ renderPdfToImageResolved(j)
       \/ createWorkerResolved(j)
       \/ \E text \in FairTexts : recognizeResolved(j, text)
       \/ terminateResolved(j)
       \/ catchError(j)
    /\ UNCHANGED regVars

NextJobsFair ==
    /\ \/ \E file \in FairFiles : handleScanFile(file)
       \/ \E j \in DOMAIN jobs : fileToBase64Resolved(j)
       \/ \E j \in DOMAIN jobs : renderPdfToImageResolved(j)
       \/ \E j \in DOMAIN jobs : createWorkerResolved(j)
       \/ \E j \in DOMAIN jobs, message \in FairMessages : logger(j, message)
       \/ \E j \in DOMAIN jobs, text \in FairTexts : recognizeResolved(j, text)
       \/ \E j \in DOMAIN jobs : terminateResolved(j)
       \/ \E j \in DOMAIN jobs : catchError(j)
    /\ UNCHANGED regVars

SpecJobsFair ==
    /\ Init
    /\ [][NextJobsFair]_vars
    /\ \A j \in 1..MaxJobs : WF_vars(j \in DOMAIN jobs /\ FairJobStep(j))

(***************************************************************************)
(* POST /api/auth/register: the handler up to and including findOne, then  *)
(* the hash and the insertOne.                                             *)
(***************************************************************************)
MaxDoctors == 3          \* doctor records ever inserted
MaxRegistering == 2      \* register requests suspended between their two steps

\* the characters of the addresses the requests carry
Spelling ==
    ("A@x" :> <<"A", "@", "x">>) @@ ("a@x" :> <<"a", "@", "x">>) @@
    ("b@X" :> <<"b", "@", "X">>) @@ ("b@x" :> <<"b", "@", "x">>)

LowerChar(c) ==
    CASE c = "A" -> "a"
      [] c = "B" -> "b"
      [] c = "X" -> "x"
      [] OTHER -> c

\* String.prototype.toLowerCase
ToLowerCase(s) == ToStr([i \in DOMAIN Spelling[s] |-> LowerChar(Spelling[s][i])])

AllFieldsRequired == [status |-> 400, error |-> "All fields are required."]
EmailRegistered == [status |-> 409, error |-> "Email already registered."]

\* doctorsCollection.findOne({ email })
FindOneByEmail(coll, email) == {i \in DOMAIN coll : coll[i].email = email}

\* bcrypt.hash(password, 10)
Hash(password) == "bcrypt:" \o password

\* the document insertOne stores
NewDoctor(body, t) ==
    [name |-> body.name,
     position |-> body.position,
     email |-> ToLowerCase(body.email),
     password |-> Hash(body.password),
     createdAt |-> t]

RegStep(part, body, res, id) ==
    [part |-> part, body |-> body, status |-> res.status, error |-> res.error,
     id |-> id]

\* what the handler answers before it inserts; Suspended when it goes on to
\* insertOne
registerLookup(coll, body) ==
    IF Falsy(body.name) \/ Falsy(body.position) \/ Falsy(body.email)
                        \/ Falsy(body.password)
    THEN AllFieldsRequired
    ELSE IF FindOneByEmail(coll, ToLowerCase(body.email)) # {}
    THEN EmailRegistered
    ELSE Suspended

registerPOST(body) ==
    LET res == registerLookup(doctors, body)
    IN  IF res # Suspended
        THEN /\ reg' = RegStep("handler", body, res, "")
             /\ UNCHANGED <<doctors, registering>>
        ELSE /\ body \notin registering
             /\ Cardinality(registering) < MaxRegistering
             /\ Len(doctors) + Cardinality(registering) < MaxDoctors
             /\ registering' = registering \cup {body}
             /\ reg' = RegStep("handler", body, res, "")
             /\ UNCHANGED doctors

registerInsertOne(body) ==
    /\ body \in registering
    /\ doctors' = Append(doctors, NewDoctor(body, now))
    /\ registering' = registering \ {body}
    /\ reg' = RegStep("write", body, Success, ObjectIdToString(Len(doctors) + 1))

\* SpecRegister: register requests of addresses that differ in letter case
\* only, of a different address, and of incomplete forms
RegBodies ==
    [name : {"Dr"}, position : {"gp", ""},
     email : {"A@x", "a@x", "b@X", Undefined}, password : {"pw"}]

NextRegister ==
    /\ \/ \E body \in RegBodies : registerPOST(body)
       \/ \E body \in registering : registerInsertOne(body)
    /\ UNCHANGED <<storeVars, clientVars>>

SpecRegister == Init /\ [][NextRegister]_vars

(***************************************************************************)
(* Properties.                                                             *)
(***************************************************************************)
\* a property absent from the body, or the empty string
Missing(v) == v \in {Undefined, ""}

\* the ObjectId a step's request names, 0 when it names none
LastOid == IF IsObjectIdString(last.body.id) THEN ParseObjectId(last.body.id) ELSE 0

\* C1: a GET by an authenticated caller answers with exactly the stored notes
\* whose doctorId is the caller: none of another owner, and none of the
\* caller's missing, whatever requests came before.
C1_ListIsOwnNotes ==
    (last.op = "GET" /\ last.caller \in Authenticated) =>
        /\ last.status = 200
        /\ \A i \in DOMAIN last.result : last.result[i].doctorId = last.caller
        /\ {last.result[i]._id : i \in DOMAIN last.result}
             = {ObjectIdToString(o) :
                    o \in {x \in DOMAIN notes : notes[x].doctorId = last.caller}}
        /\ Len(last.result)
             = Cardinality({x \in DOMAIN notes : notes[x].doctorId = last.caller})

C1_Witness ==
    /\ last.op = "GET"
    /\ last.status = 200
    /\ Len(last.result) >= 1
    /\ \E o \in DOMAIN notes : notes[o].doctorId # last.caller

\* C2: for a caller who does not own a stored note, PATCH and DELETE on that
\* note's id answer exactly what they answer when the note is not in the
\* store, and what they answer on a well-formed id no note has: 404 with the
\* body "Note not found or unauthorized" once the request passes validation.
C2_OtherOwnerLooksAbsent ==
    /\ \A c \in Authenticated : \A o \in DOMAIN notes :
          notes[o].doctorId # c =>
            /\ \A b \in Patches :
                  b.id = ObjectIdToString(o) =>
                    /\ PATCHLookup(notes, c, b) = PATCHLookup(DeleteOne(notes, o), c, b)
                    /\ \A n \in WellFormedIds \ DOMAIN notes :
                          PATCHLookup(notes, c, b)
                            = PATCHLookup(notes, c, [b EXCEPT !.id = ObjectIdToString(n)])
                    /\ ~Missing(b.title) => PATCHLookup(notes, c, b) = NotFoundOrForbidden
            /\ \A b \in Deletes :
                  b.id = ObjectIdToString(o) =>
                    /\ DELETELookup(notes, c, b) = DELETELookup(DeleteOne(notes, o), c, b)
                    /\ \A n \in WellFormedIds \ DOMAIN notes :
                          DELETELookup(notes, c, b)
                            = DELETELookup(notes, c, [b EXCEPT !.id = ObjectIdToString(n)])
                    /\ DELETELookup(notes, c, b) = NotFoundOrForbidden
    /\ (/\ last.op \in {"PATCH", "DELETE"}
        /\ last.part = "handler"
        /\ last.caller \in Authenticated
        /\ last.op = "PATCH" => ~Missing(last.body.title)
        /\ LastOid \in WellFormedIds
        /\ LastOid \in DOMAIN notes => notes[LastOid].doctorId # last.caller)
       => (last.status = 404 /\ last.error = "Note not found or unauthorized")

C2_Witness ==
    /\ last.op \in {"PATCH", "DELETE"}
    /\ last.status = 404
    /\ LastOid \in DOMAIN notes
    /\ notes[LastOid].doctorId # last.caller
    /\ WellFormedIds \ DOMAIN notes # {}

\* C3: whatever the interleaving of the lookups and writes of PATCH and DELETE
\* requests, a step that changes or removes a stored note is the write of a
\* PATCH or DELETE issued by that note's owner.
C3_OnlyOwnerWrites ==
    [][\A o \in DOMAIN notes :
          (o \notin DOMAIN notes' \/ notes'[o] # notes[o]) =>
              /\ last'.op \in {"PATCH", "DELETE"}
              /\ last'.part = "write"
              /\ last'.caller = notes[o].doctorId]_vars

C3_Witness ==
    /\ last.op \in {"PATCH", "DELETE"}
    /\ last.part = "handler"
    /\ last.status = 404
    /\ \E r \in pending :
          /\ r.body.id = last.body.id
          /\ r.caller # last.caller
          /\ LastOid \in DOMAIN notes

\* a PATCH write that found its note, of origin src, with the body field
\* named by supplied present
PatchWroteTo(src) ==
    /\ last'.op = "PATCH"
    /\ last'.part = "write"
    /\ ParseObjectId(last'.body.id) \in DOMAIN notes
    /\ notes[ParseObjectId(last'.body.id)].source = src

\* C4: a PATCH write leaves the content field that does not belong to the
\* note's origin as it was: ocrText of a manual note when the body carries
\* ocrText, contentHtml of a scan note when the body carries contentHtml.
C4_InapplicableFieldKept ==
    [][LET oid == ParseObjectId(last'.body.id)
       IN  /\ (PatchWroteTo("manual") /\ last'.body.ocrText # Undefined)
                 => (oid \in DOMAIN notes' /\ notes'[oid].ocrText = notes[oid].ocrText)
           /\ (PatchWroteTo("scan") /\ last'.body.contentHtml # Undefined)
                 => (oid \in DOMAIN notes' /\ notes'[oid].contentHtml = notes[oid].contentHtml)]_vars

C4_Witness ==
    /\ last.op = "PATCH"
    /\ last.part = "write"
    /\ LastOid \in DOMAIN notes
    /\ \/ /\ notes[LastOid].source = "manual"
          /\ last.body.ocrText = "c2"
          /\ notes[LastOid].ocrText = "c1"
       \/ /\ notes[LastOid].source = "scan"
          /\ last.body.contentHtml = "c2"
          /\ notes[LastOid].contentHtml = ""

\* C5: a PATCH of a manual note whose body carries a title and ocrText but no
\* contentHtml sets the stored title to the new title, leaves the stored
\* contentHtml as it was and adds no ocrText.
C5_TitleOnlyPatchKeepsContent ==
    [][(PatchWroteTo("manual")
          /\ last'.body.contentHtml = Undefined
          /\ last'.body.ocrText # Undefined)
        => LET oid == ParseObjectId(last'.body.id)
           IN  /\ oid \in DOMAIN notes'
               /\ notes'[oid].title = last'.body.title
               /\ notes'[oid].contentHtml = notes[oid].contentHtml
               /\ notes'[oid].ocrText = notes[oid].ocrText]_vars

\* C6: every stored manual note has an empty ocrText and every stored scan
\* note an empty contentHtml, whatever the create draft or later patches
\* supplied.
C6_OnlyOriginFieldPopulated ==
    \A o \in DOMAIN notes :
        /\ notes[o].source = "manual" => notes[o].ocrText = ""
        /\ notes[o].source = "scan" => notes[o].contentHtml = ""

\* C7: a POST by an authenticated caller whose title or source is missing or
\* empty answers 400 and inserts nothing; with both present it inserts exactly
\* one document, owned by the caller, changes no other, and answers its id.
C7_CreateValidation ==
    [][(last'.op = "POST" /\ last'.caller \in Authenticated) =>
          IF Missing(last'.body.title) \/ Missing(last'.body.source)
          THEN /\ last'.status = 400
               /\ last'.error = "Missing required fields."
               /\ notes' = notes
          ELSE /\ last'.status = 200
               /\ \E o \in DOMAIN notes' \ DOMAIN notes :
                     /\ DOMAIN notes' = DOMAIN notes \cup {o}
                     /\ notes'[o].doctorId = last'.caller
                     /\ notes'[o].title = last'.body.title
                     /\ last'.result = <<ObjectIdToString(o)>>
               /\ \A o \in DOMAIN notes : notes'[o] = notes[o]]_vars

C7_Witness ==
    /\ last.op = "POST"
    /\ last.status = 400
    /\ last.body.title = ""
    /\ ~Missing(last.body.source)
    /\ last.caller \in Authenticated
    /\ DOMAIN notes # {}

\* C8: GET, POST, PATCH and DELETE without a session email answer 401
\* "Unauthorized" whatever the body (valid or not) and whatever the store
\* holds, and change neither the store nor the requests in flight.
C8_Unauthenticated ==
    [][(last'.op \in {"GET", "POST", "PATCH", "DELETE"} /\ last'.caller = Undefined) =>
          /\ last'.status = 401
          /\ last'.error = "Unauthorized"
          /\ last'.result = <<>>
          /\ notes' = notes
          /\ pending' = pending
          /\ nextId' = nextId]_vars

C8_Witness ==
    /\ last.op = "PATCH"
    /\ last.caller = Undefined
    /\ Missing(last.body.title)
    /\ last.status = 401
    /\ DOMAIN notes # {}

\* C9: once a DELETE has answered success for an id, every DELETE, and every
\* PATCH carrying a title, that an authenticated caller issues afterwards with
\* that id answers 404 "Note not found or unauthorized" and writes nothing.
C9_DeletedStaysGone ==
    [][(/\ last'.op \in {"PATCH", "DELETE"}
        /\ last'.part = "handler"
        /\ last'.caller \in Authenticated
        /\ last'.op = "PATCH" => ~Missing(last'.body.title)
        /\ IsObjectIdString(last'.body.id)
        /\ ParseObjectId(last'.body.id) \in deleted)
       => /\ last'.status = 404
          /\ last'.error = "Note not found or unauthorized"
          /\ notes' = notes
          /\ pending' = pending]_vars

C9_Witness ==
    /\ last.op = "DELETE"
    /\ last.part = "handler"
    /\ last.status = 404
    /\ LastOid \in deleted

\* a listed note that has the id of oid and the title, source and
\* origin-appropriate content field of draft (an absent field is stored as "")
Matches(n, oid, draft) ==
    /\ n._id = ObjectIdToString(oid)
    /\ n.title = draft.title
    /\ n.source = draft.source
    /\ IF draft.source = "manual"
       THEN n.contentHtml = Coalesce(draft.contentHtml, "")
       ELSE n.ocrText = Coalesce(draft.ocrText, "")

\* C10 as stated: the first GET by the creator after a successful POST, with
\* no DELETE of the note in between, lists a note with the returned id and
\* the draft's title, source and origin-appropriate content field.
C10_NextListMatchesDraft ==
    [][(/\ last'.op = "GET"
        /\ last'.status = 200
        /\ unlisted \in DOMAIN created
        /\ created[unlisted].caller = last'.caller)
       => \E i \in DOMAIN last'.result :
             Matches(last'.result[i], unlisted, created[unlisted].draft)]_vars

\* C10 amended: every GET by the creator of a note that no DELETE removed and
\* no PATCH wrote to since its POST lists a note with the returned id and the
\* draft's title, source and origin-appropriate content field.
C10_ListMatchesDraftUntilUpdated ==
    (last.op = "GET" /\ last.status = 200) =>
        \A o \in DOMAIN created :
            (created[o].caller = last.caller /\ ~created[o].updated) =>
                \E i \in DOMAIN last.result :
                    Matches(last.result[i], o, created[o].draft)

C10_Witness ==
    /\ last.op = "GET"
    /\ last.status = 200
    /\ \E o \in DOMAIN created :
          /\ created[o].caller = last.caller
          /\ ~created[o].updated
          /\ created[o].draft.source = "manual"
          /\ created[o].draft.contentHtml = "c1"
          /\ \E i \in DOMAIN last.result : last.result[i].contentHtml = "c1"

\* C11: every list answered by GET is in descending order of the stored
\* createdAt: no note stands before a note that was created later, after any
\* sequence of creates, updates and deletes.
C11_ListNewestFirst ==
    (last.op = "GET" /\ last.status = 200) =>
        \A i, j \in DOMAIN last.result :
            i < j =>
                notes[ParseObjectId(last.result[i]._id)].createdAt
                    >= notes[ParseObjectId(last.result[j]._id)].createdAt

\* a list of two notes created at different instants, one of them updated
\* after the other was created, while a third id has been deleted or not
C11_Witness ==
    /\ last.op = "GET"
    /\ last.status = 200
    /\ Len(last.result) = 2
    /\ last.result[1].createdAt # last.result[2].createdAt
    /\ notes[ParseObjectId(last.result[2]._id)].updatedAt
           > notes[ParseObjectId(last.result[1]._id)].createdAt

\* C12: in every reachable state of the collection, the source of every stored
\* note is "manual" or "scan", whatever source the create request supplied.
C12_OriginIsManualOrScan ==
    \A oid \in DOMAIN notes : notes[oid].source \in {"manual", "scan"}

\* C13: a PATCH by an authenticated caller whose body lacks id or title is
\* answered 400 "Missing required fields." and changes no stored note, nor is
\* any write left to come from it; the write of a PATCH that answers success
\* leaves the note it names, when that note is still stored, with the title
\* the request supplied.
C13_UpdateValidationAndTitle ==
    [][/\ (/\ last'.op = "PATCH"
           /\ last'.caller \in Authenticated
           /\ (Missing(last'.body.id) \/ Missing(last'.body.title)))
          => /\ last'.status = 400
             /\ last'.error = "Missing required fields."
             /\ notes' = notes
             /\ pending' = pending
       /\ (/\ last'.op = "PATCH"
           /\ last'.part = "write"
           /\ last'.status = 200
           /\ ParseObjectId(last'.body.id) \in DOMAIN notes)
          => notes'[ParseObjectId(last'.body.id)].title = last'.body.title]_vars

\* a PATCH write has just changed the title of a stored note
C13_Witness ==
    /\ last.op = "PATCH"
    /\ last.part = "write"
    /\ last.status = 200
    /\ LastOid \in DOMAIN notes
    /\ notes[LastOid].title = "t2"
    /\ created[LastOid].draft.title = "t1"

\* the steps in which a job writes the displayed preview, progress or
\* transcript
JobWrites == {"setScanPreview", "logger", "setOcrText", "catch"}

\* the job started by the latest file selection (0 before the first)
NewestJob == Len(jobs)

\* C14: once a newer job has started, a step of an older job changes none of
\* the displayed preview, transcript and progress: only the newest job writes
\* them.
C14_StaleResultsDiscarded ==
    [][(act'.name \in JobWrites /\ act'.job # NewestJob)
          => /\ scanPreview' = scanPreview
             /\ ocrText' = ocrText
             /\ ocrProgress' = ocrProgress]_vars

\* the jobs whose tesseract worker has been created and not terminated
RunningWorkers == {j \in DOMAIN jobs : jobs[j].worker = "running"}

\* C15: at most one OCR worker is running at any time, whatever files are
\* selected and whenever.
C15_OneRecognizer == Cardinality(RunningWorkers) <= 1

\* C16: the published progress stays within 0..100, is 0 right after a file
\* selection starts a job, and never decreases except at the selection that
\* starts the next job.
C16_ProgressMonotone ==
    [][/\ ocrProgress' \in 0..100
       /\ act'.name = "handleScanFile" => ocrProgress' = 0
       /\ ocrProgress' < ocrProgress => act'.name = "handleScanFile"]_vars

\* C17: when a promise awaited by a job rejects while the file is previewed,
\* rasterized or recognized, the same step sets the transcript to exactly the
\* fallback text and clears the busy flag, the job's call returns normally
\* instead of throwing, and the transcript can still be typed over.
C17_ErrorsBecomeFallback ==
    /\ [][act'.name = "catch"
            => /\ jobs[act'.job].pc \in Awaiting
               /\ ToStr(ocrText') = "Unable to extract text. Please try a clearer scan."
               /\ ~ocrBusy'
               /\ jobs'[act'.job].pc = "returned"
               /\ jobs'[act'.job].outcome = "failed"]_vars
    /\ [](\A text \in EditedTexts : text # ocrText => ENABLED setOcrText(text))

\* a job failed while its worker was recognizing, and the user typed over the
\* fallback text afterwards
C17_Witness ==
    /\ act.name = "textarea"
    /\ ocrText \in EditedTexts
    /\ ~ocrBusy
    /\ \E j \in DOMAIN jobs : jobs[j].outcome = "failed" /\ jobs[j].worker = "running"

\* C18: when every awaited promise settles in the end, every job that was
\* started returns, as done or as failed, never staying at the file read, the
\* rasterization or the recognition; the step in which it returns clears the
\* busy flag and leaves the transcript set (the fallback text when it failed).
C18_JobsTerminate ==
    /\ \A j \in 1..MaxJobs :
          (j \in DOMAIN jobs)
              ~> /\ j \in DOMAIN jobs
                 /\ jobs[j].pc = "returned"
                 /\ jobs[j].outcome \in {"done", "failed"}
    /\ [][\A j \in DOMAIN jobs :
             (jobs[j].pc # "returned" /\ jobs'[j].pc = "returned")
                => /\ ~ocrBusy'
                   /\ jobs'[j].outcome = "failed" => ocrText' = Fallback
                   /\ jobs'[j].outcome = "done" => ocrText' = Trim(jobs[j].text)]_vars

\* two jobs have returned, one done and one failed, and the page is not busy
C18_Witness ==
    /\ ~ocrBusy
    /\ \E j, k \in DOMAIN jobs :
          /\ jobs[j].pc = "returned" /\ jobs[j].outcome = "done"
          /\ jobs[k].pc = "returned" /\ jobs[k].outcome = "failed"

\* a declared media type the file input accepts: image/* or application/pdf
IsImageOrPdf(type) == type \in {"image/png", "image/jpeg", "application/pdf"}

\* C19: a job whose file is neither an image nor a PDF never gets past the
\* file read, so no worker is created for it and nothing is recognized.
C19_UnsupportedTypeFailsEarly ==
    \A j \in DOMAIN jobs :
        ~IsImageOrPdf(jobs[j].file.type)
            => /\ jobs[j].pc \in {"fileToBase64", "returned"}
               /\ jobs[j].worker = "none"
               /\ jobs[j].outcome \in {"pending", "failed"}

\* C20: the form is reset by the save of a scan only when the POST stored the
\* note, and by every file selection; once reset by a save it stays reset
\* until the next file selection: no job still in flight writes the preview,
\* the transcript or the progress while no file is selected.
C20_ResetOnlyWhenPersisted ==
    [][/\ act'.name = "reset"
          => /\ save.status = 200
             /\ \E oid \in DOMAIN notes : notes[oid].title = save.title
             /\ scanFile' = NoFile /\ scanPreview' = Null
             /\ ocrText' = <<>> /\ ocrProgress' = 0
       /\ act'.name = "handleScanFile"
          => scanPreview' = Null /\ ocrText' = <<>> /\ ocrProgress' = 0
       /\ (act'.name \in JobWrites /\ scanFile = NoFile)
          => /\ scanPreview' = scanPreview
             /\ ocrText' = ocrText
             /\ ocrProgress' = ocrProgress]_vars

\* C21: when the upload of a save is answered with a failure, that step
\* leaves the file, the title and the transcript of the form as they are,
\* stores nothing and ends the save, so that the save can be started again;
\* and every create request a save sends carries the url and the public id
\* of an upload that succeeded.
C21_UploadFailureKeepsScan ==
    /\ [][/\ (act'.name = "upload" /\ save'.pc # "post")
              => /\ save'.pc = "threw"
                 /\ scanFile' = scanFile /\ scanFile' # NoFile
                 /\ scanTitle' = scanTitle
                 /\ ocrText' = ocrText
                 /\ scanPreview' = scanPreview
                 /\ notes' = notes
                 /\ ~savingScan'
          /\ act'.name = "POST /api/notes"
             => /\ last'.body.fileUrl \notin {Undefined, ""}
                /\ last'.body.filePublicId \notin {Undefined, ""}
                /\ last'.body.fileName = save.file.name]_vars
    /\ []((save.pc = "threw" /\ scanFile # NoFile /\ scanTitle # "" /\ ~savingScan)
              => ENABLED saveScanNote)

\* the recognition of the file succeeded, the upload of the save failed, and
\* the form still holds the file, the title and the recognized transcript
C21_Witness ==
    /\ act.name = "upload"
    /\ save.pc = "threw"
    /\ scanFile # NoFile
    /\ scanTitle = "t1"
    /\ ocrText = <<"ok">>
    /\ \E j \in DOMAIN jobs : jobs[j].outcome = "done"
    /\ DOMAIN notes = {}

\* C22: in every reachable state of the collection, only a note whose source
\* is "scan" has a non-empty fileUrl, filePublicId, fileName or fileType; the
\* attachment fields of a manual note are empty whatever the draft supplied.
C22_AttachmentOnlyOnScan ==
    \A oid \in DOMAIN notes :
        notes[oid].source # "scan"
            => /\ notes[oid].fileUrl = ""
               /\ notes[oid].filePublicId = ""
               /\ notes[oid].fileName = ""
               /\ notes[oid].fileType = ""

\* C23: no step of a PATCH request, answered with success or with a failure,
\* adds or removes a note or changes the doctorId, the source or the createdAt
\* of a stored note; and every stored note has the doctorId and the source its
\* create request gave it.
C23_UpdateKeepsIdentity ==
    /\ [][last'.op = "PATCH"
            => /\ DOMAIN notes' = DOMAIN notes
               /\ \A oid \in DOMAIN notes :
                     /\ notes'[oid].doctorId = notes[oid].doctorId
                     /\ notes'[oid].source = notes[oid].source
                     /\ notes'[oid].createdAt = notes[oid].createdAt]_vars
    /\ [](\A oid \in DOMAIN notes :
             /\ notes[oid].doctorId = created[oid].caller
             /\ notes[oid].source = created[oid].draft.source)

\* a PATCH has just written to a note at a later instant than the one it was
\* created at
C23_Witness ==
    /\ last.op = "PATCH"
    /\ last.part = "write"
    /\ LastOid \in DOMAIN notes
    /\ notes[LastOid].updatedAt > notes[LastOid].createdAt
    /\ notes[LastOid].title = "t2"

\* C24: the write of a DELETE that answers success removes the note the
\* request names and nothing else, every other note staying as it was; every
\* other step of a DELETE request, among them the answers 400 and 404, leaves
\* the collection as it was.
C24_DeleteRemovesOnlyTarget ==
    [][last'.op = "DELETE"
          => IF last'.part = "write" /\ last'.status = 200
             THEN /\ DOMAIN notes' = DOMAIN notes \ {ParseObjectId(last'.body.id)}
                  /\ \A oid \in DOMAIN notes' : notes'[oid] = notes[oid]
             ELSE notes' = notes]_vars

\* a DELETE has just removed one of two notes of the same owner
C24_Witness ==
    /\ last.op = "DELETE"
    /\ last.part = "write"
    /\ last.status = 200
    /\ LastOid \in deleted
    /\ LastOid \notin DOMAIN notes
    /\ \E oid \in DOMAIN notes : notes[oid].doctorId = last.caller

\* the positions of a job inside runOcrOnImage
Recognizing == {"createWorker", "recognize", "terminate"}

\* C25: a job is at the rasterization only when its file's type is
\* "application/pdf"; a job enters the recognition from the rasterization when
\* its file is a PDF and straight from the file read otherwise; and what the
\* recognition is given is the raster image of a PDF, and the file itself
\* otherwise.
C25_RasterizeIffPdf ==
    /\ [][\A j \in DOMAIN jobs :
             (jobs[j].pc \notin Recognizing /\ jobs'[j].pc \in Recognizing)
                => jobs[j].pc = IF jobs[j].file.type = "application/pdf"
                                THEN "renderPdfToImage"
                                ELSE "fileToBase64"]_vars
    /\ [](\A j \in DOMAIN jobs :
             /\ jobs[j].pc = "renderPdfToImage" => jobs[j].file.type = "application/pdf"
             /\ jobs[j].pc \in Recognizing
                => IF jobs[j].file.type = "application/pdf"
                   THEN /\ jobs[j].ocrSource.kind = "dataURL"
                        /\ jobs[j].ocrSource.type = "image/png"
                        /\ jobs[j].ocrSource.name = jobs[j].file.name
                   ELSE /\ jobs[j].ocrSource.kind = "File"
                        /\ jobs[j].ocrSource.type = jobs[j].file.type
                        /\ jobs[j].ocrSource.name = jobs[j].file.name)

\* the workers of a PDF and of an image are both recognizing, the first the
\* raster image and the second the file
C25_Witness ==
    \E j, k \in DOMAIN jobs :
        /\ jobs[j].pc = "recognize" /\ jobs[j].file.type = "application/pdf"
        /\ jobs[j].ocrSource.kind = "dataURL"
        /\ jobs[k].pc = "recognize" /\ jobs[k].file.type = "image/png"
        /\ jobs[k].ocrSource.kind = "File"

\* C26: a logger message whose status is not "recognizing text" leaves the
\* published progress as it was, whatever progress the message carries; the
\* progress changes in a logger step only to the rounded percentage of a
\* "recognizing text" message.
C26_ProgressOnlyWhileRecognizing ==
    [][act'.name = "logger"
          => /\ act'.status # "recognizing text" => ocrProgress' = ocrProgress
             /\ ocrProgress' # ocrProgress
                   => /\ act'.status = "recognizing text"
                      /\ ocrProgress' = RoundPercent(jobs'[act'.job].emitted)]_vars

\* a worker that recognizes reported a loading stage after a progress of 50
\* had been published, and 50 is still published
C26_Witness ==
    /\ act.name = "logger"
    /\ act.status = "loading tesseract core"
    /\ jobs[act.job].pc = "recognize"
    /\ jobs[act.job].emitted = 495
    /\ ocrProgress = 50

\* r is text t without a run of whitespace at its start and at its end, and
\* neither starts nor ends with whitespace
IsTrimmed(r, t) ==
    /\ \E a, b \in 0..Len(t) :
          /\ a + Len(r) + b = Len(t)
          /\ \A i \in 1..Len(r) : r[i] = t[a + i]
          /\ \A i \in 1..a : t[i] \in {" ", "\n", "\t"}
          /\ \A i \in (Len(t) - b + 1)..Len(t) : t[i] \in {" ", "\n", "\t"}
    /\ r # <<>> => r[1] \notin {" ", "\n", "\t"} /\ r[Len(r)] \notin {" ", "\n", "\t"}

\* C27: the step in which a job whose recognition succeeded returns sets the
\* transcript to the recognized text without its leading and trailing
\* whitespace, so that it neither starts nor ends with whitespace, and clears
\* the busy flag.
C27_ResultIsTrimmedText ==
    [][act'.name = "setOcrText"
          => /\ jobs[act'.job].pc = "terminate"
             /\ jobs'[act'.job].outcome = "done"
             /\ IsTrimmed(ocrText', jobs[act'.job].text)
             /\ ~ocrBusy']_vars

\* a job has just returned the text "a b" recognized with whitespace around it
C27_Witness ==
    /\ act.name = "setOcrText"
    /\ jobs[act.job].outcome = "done"
    /\ ocrText = <<"a", " ", "b">>
    /\ ~ocrBusy

\* C28: a deleted note never reappears. No state holds a note whose DELETE
\* has written; the write of a PATCH that finds its note gone, the DELETE
\* having removed it after the PATCH's lookup, leaves the collection as it
\* was; and no list answered afterwards carries the id of a deleted note.
C28_DeletedNeverReappears ==
    /\ [](deleted \cap DOMAIN notes = {})
    /\ [][(/\ last'.op = "PATCH"
            /\ last'.part = "write"
            /\ ParseObjectId(last'.body.id) \notin DOMAIN notes)
           => notes' = notes]_vars
    /\ [][(last'.op = "GET" /\ last'.status = 200)
           => \A i \in DOMAIN last'.result :
                 ParseObjectId(last'.result[i]._id) \notin deleted]_vars

\* a PATCH has just written to a note that a DELETE removed after the PATCH
\* had looked it up
C28_Witness ==
    /\ last.op = "PATCH"
    /\ last.part = "write"
    /\ last.status = 200
    /\ LastOid \in deleted
    /\ LastOid \notin DOMAIN notes

\* C29: registration keeps the doctors' addresses unique ignoring letter
\* case: no two doctor records have the same lower-cased address, whatever
\* the interleaving of the register requests, and a complete request for an
\* address that is registered answers 409 and inserts nothing.
C29_EmailsUniqueIgnoringCase ==
    /\ [](\A i, k \in DOMAIN doctors :
            ToLowerCase(doctors[i].email) = ToLowerCase(doctors[k].email) => i = k)
    /\ [][(/\ reg'.part = "handler"
           /\ ~(Falsy(reg'.body.name) \/ Falsy(reg'.body.position)
                   \/ Falsy(reg'.body.email) \/ Falsy(reg'.body.password))
           /\ \E i \in DOMAIN doctors :
                 doctors[i].email = ToLowerCase(reg'.body.email))
          => /\ reg'.status = 409
             /\ doctors' = doctors
             /\ registering' = registering]_vars

====
